---- MODULE Spec2Model ----
(***************************************************************************)
(* Content resolution and indexing pipeline of the documentation site:     *)
(*   src/lib/markdown.ts   on-demand path (getDocsContentPath, getDocsTocs, *)
(*                         sluggify, getPreviousNext)                       *)
(*   src/unnamed/part_000  batch search-index build (getAllIndexMDXFiles,   *)
(*                         extractHeadings, extractTextFromMDX,             *)
(*                         generateSearchIndex)                             *)
(* Strings are sequences of one-character strings, so that the regular     *)
(* expressions of the source can be modelled character by character.       *)
(***************************************************************************)
EXTENDS Integers, Sequences, FiniteSets, TLC

VARIABLES
  \* ---- slug functions applied to one heading text
  headingText,   \* the heading text both slug algorithms are applied to
  tocHref,       \* TocEntry.href computed by getDocsTocs for headingText
  tocDone,       \* TRUE once the TOC side has computed tocHref
  headings,      \* the headings array of extractHeadings
  visits,        \* number of heading nodes the visitor has been called on
  \* ---- getDocsContentPath
  slug,          \* the argument of getDocsContentPath
  fs,            \* what the file system holds at each candidate path
  statError,     \* TRUE when fs.stat fails with an error other than not-found
  probed,        \* the paths fs.stat has been called on
  pathPc,        \* "call", "stat" (awaiting fs.stat) or "returned"
  resolved,      \* the path getDocsContentPath returned
  \* ---- getDocsTocs
  rawMdx,            \* the text fs.readFile returned
  tocPc,             \* "resolving", "reading", "done" or "threw"
  extractedHeadings, \* the TocEntry array getDocsTocs returns
  \* ---- extractHeadings on a parsed document
  tree,          \* the node tree remark-parse produced for the body
  headPc,        \* "parsed" or "done"
  \* ---- generateSearchIndex
  contentTree,   \* the directory tree under DOCS_ROOT: path -> kind of entry
  rootReadable,  \* FALSE when readdirSync(DOCS_ROOT) throws
  fileState,     \* index file -> "ok", "unreadable" or "unparsable"
  files,         \* the result of getAllIndexMDXFiles(DOCS_ROOT)
  tasks,         \* state of each promise of files.map(extractTextFromMDX)
  taskResults,   \* the SearchDocument each fulfilled promise holds
  settled,       \* the task indexes in the order their promises fulfilled
  artifact,      \* the content of OUTPUT_FILE
  console,       \* what console.log and console.error have printed
  batchPc,       \* position of the batch job
  exitStatus,    \* exit status of the process, once it has exited
  \* ---- one call of extractTextFromMDX
  indexFile,     \* the argument of extractTextFromMDX
  frontMatter,   \* the front matter gray-matter parsed from the file
  mdast,         \* the body of the file, as the tree remark-parse makes of it
  document,      \* the SearchDocument extractTextFromMDX returns
  extractPc,     \* "call" or "returned"
  \* ---- getPreviousNext
  page_routes,   \* the route table imported from ./routes-config
  navPath,       \* the argument of getPreviousNext
  prevNext,      \* the {prev, next} object getPreviousNext returns
  navPc,         \* "call" or "returned"
  \* ---- the caller of an on-demand operation
  docsPc,        \* position of getDocsForSlug
  readError,     \* the error object a failing read or parse rejects with
  errorLog,      \* the console.error calls of markdown.ts
  caught,        \* the error object that reached the caller
  \* ---- a second run of the batch job
  run,           \* 1 during the first run of the script, 2 during the second
  firstArtifact, \* the content of OUTPUT_FILE when the first run exited
  firstSettled,  \* the completion order of the first run's tasks
  \* ---- two invocations of getDocsTocs in flight together
  calls,         \* invocation -> its slug, position, resolved path, reads, result
  fileText,      \* the text of the file at each path
  schedule       \* the invocations in the order their steps ran

slugVars == <<headingText, tocHref, tocDone, headings, visits>>
pathVars == <<slug, fs, statError, probed, pathPc, resolved>>
tocVars == <<rawMdx, tocPc, extractedHeadings>>

headVars == <<tree, headPc>>
batchVars == <<contentTree, rootReadable, fileState, files, tasks, taskResults, settled,
               artifact, console, batchPc, exitStatus>>

docVars == <<indexFile, frontMatter, mdast, document, extractPc>>
navVars == <<page_routes, navPath, prevNext, navPc>>
callVars == <<docsPc, readError, errorLog, caught>>
rerunVars == <<run, firstArtifact, firstSettled>>
pairVars == <<calls, fileText, schedule>>

vars == <<slugVars, pathVars, tocVars, headVars, batchVars, docVars, navVars, callVars,
          rerunVars, pairVars>>

\* the variables of the other components, which a component leaves alone
notSlug == <<pathVars, tocVars, headVars, batchVars, docVars, navVars, callVars, rerunVars, pairVars>>
notPath == <<slugVars, tocVars, headVars, batchVars, docVars, navVars, callVars, rerunVars, pairVars>>
notToc == <<slugVars, headVars, batchVars, docVars, navVars, rerunVars, pairVars>>
notHead == <<pathVars, tocVars, batchVars, docVars, navVars, callVars, rerunVars, pairVars>>
notBatch == <<slugVars, pathVars, tocVars, headVars, docVars, navVars, callVars, rerunVars, pairVars>>
notDoc == <<slugVars, pathVars, tocVars, headVars, batchVars, navVars, callVars, rerunVars, pairVars>>
notNav == <<slugVars, pathVars, tocVars, headVars, batchVars, docVars, callVars, rerunVars, pairVars>>
notCall == <<slugVars, tocVars, headVars, batchVars, docVars, navVars, rerunVars, pairVars>>
notPair == <<slugVars, tocVars, headVars, batchVars, docVars, navVars, callVars, rerunVars>>

(***************************************************************************)
(* Bounds                                                                  *)
(***************************************************************************)
MaxTextLen == 4
MaxSlugLen == 3
MaxDocLen == 7
MaxDepth == 3

(***************************************************************************)
(* Characters                                                              *)
(***************************************************************************)
\* Two non-ASCII letters, U+00C9 and U+00E9 (E acute), as one-character tokens
UpperEacute == "U+00C9"
LowerEacute == "U+00E9"

AsciiLower == {"a", "b"}
AsciiUpper == {"A", "B"}
Digits == {"7"}

\* String.prototype.toLowerCase, per character
toLowerCase(c) ==
  CASE c = "A" -> "a"
    [] c = "B" -> "b"
    [] c = UpperEacute -> LowerEacute
    [] OTHER -> c

\* the regular expression class \s
IsSpace(c) == c \in {" ", "\t", "\n"}

\* the regular expression class \w, [A-Za-z0-9_]
IsWord(c) == c \in AsciiLower \cup AsciiUpper \cup Digits \cup {"_"}

\* the regular expression class [a-z0-9-]
IsSlugChar(c) == c \in AsciiLower \cup Digits \cup {"-"}

Lower(s) == [i \in 1..Len(s) |-> toLowerCase(s[i])]

SeqsUpTo(S, n) == UNION {[1..k -> S] : k \in 0..n}

(***************************************************************************)
(* sluggify (src/lib/markdown.ts)                                          *)
(***************************************************************************)
RECURSIVE SkipSpaces(_)
SkipSpaces(s) ==
  IF s # <<>> /\ IsSpace(Head(s)) THEN SkipSpaces(Tail(s)) ELSE s

\* faulty variant: the quantifier + is missing, every whitespace character becomes a dash
ReplaceEachSpace(s) == [i \in 1..Len(s) |-> IF IsSpace(s[i]) THEN "-" ELSE s[i]]

\* .replace(/\s+/g, '-')
RECURSIVE ReplaceSpaceRuns(_)
ReplaceSpaceRuns(s) ==
  IF s = <<>> THEN <<>>
  ELSE IF IsSpace(Head(s)) THEN <<"-">> \o ReplaceSpaceRuns(SkipSpaces(Tail(s)))
  ELSE <<Head(s)>> \o ReplaceSpaceRuns(Tail(s))

\* .replace(/[^a-z0-9-]/g, '')
RemoveNonSlugChars(s) == SelectSeq(s, IsSlugChar)

sluggify(text) == RemoveNonSlugChars(ReplaceSpaceRuns(Lower(text)))

(***************************************************************************)
(* extractHeadings (src/unnamed/part_000)                                  *)
(***************************************************************************)
RECURSIVE SkipNonWord(_)
SkipNonWord(s) ==
  IF s # <<>> /\ ~IsWord(Head(s)) THEN SkipNonWord(Tail(s)) ELSE s

\* .replace(/[^\w]+/g, '-')
RECURSIVE ReplaceNonWordRuns(_)
ReplaceNonWordRuns(s) ==
  IF s = <<>> THEN <<>>
  ELSE IF ~IsWord(Head(s)) THEN <<"-">> \o ReplaceNonWordRuns(SkipNonWord(Tail(s)))
  ELSE <<Head(s)>> \o ReplaceNonWordRuns(Tail(s))

RECURSIVE StripLeadingDashes(_)
StripLeadingDashes(s) ==
  IF s # <<>> /\ Head(s) = "-" THEN StripLeadingDashes(Tail(s)) ELSE s

RECURSIVE StripTrailingDashes(_)
StripTrailingDashes(s) ==
  IF s # <<>> /\ s[Len(s)] = "-"
  THEN StripTrailingDashes(SubSeq(s, 1, Len(s) - 1))
  ELSE s

\* faulty variant: only the leading dashes are stripped
StripLeadingOnly(s) == StripLeadingDashes(s)

\* .replace(/^-+|-+$/g, '')
StripDashes(s) == StripTrailingDashes(StripLeadingDashes(s))

\* the id computed for a heading text, lines 63-66
headingId(text) == StripDashes(ReplaceNonWordRuns(Lower(text)))

RECURSIVE Concat(_)
Concat(ss) == IF ss = <<>> THEN <<>> ELSE Head(ss) \o Concat(Tail(ss))

IsTextChild(child) == child.type = "text"

\* node.children.filter(child => child.type === 'text').map(child => child.value).join('')
headingNodeText(node) ==
  LET texts == SelectSeq(node.children, IsTextChild)
  IN Concat([i \in 1..Len(texts) |-> texts[i].value])

\* faulty variant: the guard "if (text && id)" is missing, every heading node is pushed
visitPushAll(hs, node) ==
  Append(hs, [text |-> headingNodeText(node), id |-> headingId(headingNodeText(node))])

\* the visitor callback of visit(tree, 'heading', ...), lines 56-71
visitHeading(hs, node) ==
  LET text == headingNodeText(node)
      id == headingId(text)
  IN IF text # <<>> /\ id # <<>> THEN Append(hs, [text |-> text, id |-> id]) ELSE hs

(***************************************************************************)
(* Specification SpecSlug: both slug algorithms on one heading text         *)
(***************************************************************************)
Alphabet == {"a", "B", "7", " ", "-", "_", ".", UpperEacute}

HeadingTexts == SeqsUpTo(Alphabet, MaxTextLen)

\* a heading node whose only child is one plain-text node
TextHeading(text) ==
  [type |-> "heading",
   children |-> IF text = <<>> THEN <<>> ELSE <<[type |-> "text", value |-> text]>>]

IdleSlug ==
  /\ headingText = <<>>
  /\ tocHref = <<>>
  /\ tocDone = FALSE
  /\ headings = <<>>
  /\ visits = 0

IdlePath ==
  /\ slug = <<>>
  /\ fs = <<>>
  /\ statError = FALSE
  /\ probed = {}
  /\ pathPc = "idle"
  /\ resolved = <<>>

IdleToc ==
  /\ rawMdx = <<>>
  /\ tocPc = "idle"
  /\ extractedHeadings = <<>>

IdleHead ==
  /\ tree = <<>>
  /\ headPc = "idle"

IdleBatch ==
  /\ contentTree = <<>>
  /\ rootReadable = TRUE
  /\ fileState = <<>>
  /\ files = <<>>
  /\ tasks = <<>>
  /\ taskResults = <<>>
  /\ settled = <<>>
  /\ artifact = <<>>
  /\ console = <<>>
  /\ batchPc = "idle"
  /\ exitStatus = -1

IdleDoc ==
  /\ indexFile = <<>>
  /\ frontMatter = <<>>
  /\ mdast = <<>>
  /\ document = <<>>
  /\ extractPc = "idle"

IdleNav ==
  /\ page_routes = <<>>
  /\ navPath = <<>>
  /\ prevNext = <<>>
  /\ navPc = "idle"

IdleCall ==
  /\ docsPc = "idle"
  /\ readError = <<>>
  /\ errorLog = <<>>
  /\ caught = <<>>

IdleRerun ==
  /\ run = 1
  /\ firstArtifact = <<>>
  /\ firstSettled = <<>>

IdlePair ==
  /\ calls = <<>>
  /\ fileText = <<>>
  /\ schedule = <<>>

InitSlug ==
  /\ headingText \in HeadingTexts
  /\ tocHref = <<>>
  /\ tocDone = FALSE
  /\ headings = <<>>
  /\ visits = 0
  /\ IdlePath
  /\ IdleToc
  /\ IdleHead
  /\ IdleBatch
  /\ IdleDoc
  /\ IdleNav
  /\ IdleCall
  /\ IdleRerun
  /\ IdlePair

\* getDocsTocs, lines 85-89: href of the entry for headingText
TocHref ==
  /\ ~tocDone
  /\ tocHref' = <<"#">> \o sluggify(headingText)
  /\ tocDone' = TRUE
  /\ UNCHANGED <<headingText, headings, visits, notSlug>>

\* extractHeadings visits a heading node with text headingText; the document
\* holds that heading twice
VisitHeading ==
  /\ visits < 2
  /\ headings' = visitHeading(headings, TextHeading(headingText))
  /\ visits' = visits + 1
  /\ UNCHANGED <<headingText, tocHref, tocDone, notSlug>>

NextSlug == TocHref \/ VisitHeading

SpecSlug == InitSlug /\ [][NextSlug]_vars

(***************************************************************************)
(* Claims checked under SpecSlug                                           *)
(***************************************************************************)
\* the k-th smallest element of a finite set of integers
NthOf(S, k) == CHOOSE i \in S : Cardinality({j \in S : j <= i}) = k

\* C1: for every heading text the TOC slug and the search-index slug are the
\* same id: TocEntry.href without its leading '#' equals Heading.id.
C1_SameId ==
  \A i \in 1..Len(headings) : tocDone => Tail(tocHref) = headings[i].id

\* lowercase(text) with every maximal run of non-word characters replaced by
\* one dash and the leading and trailing dashes removed, stated by positions:
\* the word characters in order, with one dash between two of them exactly
\* when they are not adjacent in the text
DashedWords(text) ==
  LET L == Lower(text)
      W == {i \in 1..Len(L) : IsWord(L[i])}
      p(k) == NthOf(W, k)
  IN Concat([k \in 1..Cardinality(W) |->
               IF k > 1 /\ p(k) > p(k - 1) + 1 THEN <<"-", L[p(k)]>> ELSE <<L[p(k)]>>])

\* C9: every Heading has id = lowercase(text) with every maximal run of
\* non-word characters replaced by a single dash and leading and trailing
\* dashes removed; two headings with the same text both appear, with the same
\* id (no deduplication).
C9_HeadingId ==
  /\ \A i \in 1..Len(headings) :
       /\ headings[i].text = headingText
       /\ headings[i].id = DashedWords(headings[i].text)
  /\ Len(headings) \in {0, visits}

C9_Witness ==
  /\ headingText = <<"-", "B", ".", " ">>
  /\ headings = <<[text |-> headingText, id |-> <<"b">>],
                  [text |-> headingText, id |-> <<"b">>]>>

\* letters, as the claim's "letters": ASCII and non-ASCII ones
Letters == AsciiLower \cup AsciiUpper \cup {UpperEacute, LowerEacute}

AsciiLetters == AsciiLower \cup AsciiUpper

\* lowercase(H) with every run of spaces replaced by one dash and no other
\* character removed, stated by positions: a space is kept (as a dash) only
\* when it starts a run
SpaceRunsDashed(H) ==
  LET L == Lower(H)
      K == {i \in 1..Len(L) : L[i] # " " \/ i = 1 \/ L[i - 1] # " "}
  IN [k \in 1..Cardinality(K) |->
        IF L[NthOf(K, k)] = " " THEN "-" ELSE L[NthOf(K, k)]]

OnlyFrom(s, S) == \A i \in 1..Len(s) : s[i] \in S

endsWith(s, suffix) ==
  /\ Len(s) >= Len(suffix)
  /\ SubSeq(s, Len(s) - Len(suffix) + 1, Len(s)) = suffix

\* faulty variant: the dot of the extension is not part of the test
endsWithMdxNoDot(s) == endsWith(s, <<"m", "d", "x">>)

\* slug.endsWith('.mdx'), line 113
endsWithMdx(s) == endsWith(s, <<".", "m", "d", "x">>)

\* a path string split at its '/' separators
RECURSIVE SplitPath(_, _)
SplitPath(s, seg) ==
  IF s = <<>> THEN <<seg>>
  ELSE IF Head(s) = "/" THEN <<seg>> \o SplitPath(Tail(s), <<>>)
  ELSE SplitPath(Tail(s), Append(seg, Head(s)))

\* path.normalize of an absolute path: empty and '.' segments are dropped, a
\* '..' segment removes the segment before it (nothing above the root)
RECURSIVE NormalizeSegments(_, _)
NormalizeSegments(segs, out) ==
  IF segs = <<>> THEN out
  ELSE LET seg == Head(segs)
       IN IF seg = <<>> \/ seg = <<".">> THEN NormalizeSegments(Tail(segs), out)
          ELSE IF seg = <<".", ".">>
          THEN NormalizeSegments(Tail(segs),
                                 IF out = <<>> THEN out ELSE SubSeq(out, 1, Len(out) - 1))
          ELSE NormalizeSegments(Tail(segs), Append(out, seg))

\* process.cwd(), an absolute directory
Cwd == <<"/", "w", "d">>

\* the literal '/contents/docs/'
ContentsDocs == <<"/", "c", "o", "n", "t", "e", "n", "t", "s", "/", "d", "o", "c", "s", "/">>

\* path.join(process.cwd(), '/contents/docs/', rel): the non-empty arguments
\* joined with '/', then normalized; the result is the list of its segments
pathJoin(rel) ==
  LET joined == Cwd \o <<"/">> \o ContentsDocs
                \o (IF rel = <<>> THEN <<>> ELSE <<"/">> \o rel)
  IN NormalizeSegments(SplitPath(joined, <<>>), <<>>)

\* `${slug}.mdx`, line 118
mdxPath(s) == pathJoin(s \o <<".", "m", "d", "x">>)

\* `${slug}/index.mdx`, line 123
indexPath(s) == pathJoin(s \o <<"/", "i", "n", "d", "e", "x", ".", "m", "d", "x">>)

\* fs.stat(p) fulfils: something (a file or a directory) is at p and no I/O
\* error occurs
statFulfils(p) ==
  /\ ~statError
  /\ p \in DOMAIN fs
  /\ fs[p] # "none"

\* faulty variant: catch (e) that swallows a not-found error only and throws
\* any other error again
catchNotFoundOnly(s) ==
  IF statError THEN [pc |-> "threw", value |-> <<>>]
  ELSE [pc |-> "returned", value |-> indexPath(s)]

\* lines 122-124: the catch clause binds no error and tests nothing, the
\* function returns the index path whatever was thrown
catchStat(s) == [pc |-> "returned", value |-> indexPath(s)]

(***************************************************************************)
(* Specification SpecPath: one call of getDocsContentPath                  *)
(***************************************************************************)
SlugTails == {<<>>, <<".", "m", "d", "x">>, <<"m", "d", "x">>}

Slugs == {body \o tail : body \in SeqsUpTo({"a", "/", "."}, MaxSlugLen), tail \in SlugTails}

FsKinds == {"none", "file", "dir"}

InitPath ==
  /\ slug \in Slugs
  /\ fs \in [{mdxPath(slug), indexPath(slug)} -> FsKinds]
  /\ statError \in BOOLEAN
  /\ probed = {}
  /\ pathPc = "call"
  /\ resolved = <<>>
  /\ IdleSlug
  /\ IdleToc
  /\ IdleHead
  /\ IdleBatch
  /\ IdleDoc
  /\ IdleNav
  /\ IdleCall
  /\ IdleRerun
  /\ IdlePair

\* lines 113-115: the slug carries the extension, the joined path is returned
ReturnLiteral ==
  /\ pathPc = "call"
  /\ endsWithMdx(slug)
  /\ resolved' = pathJoin(slug)
  /\ pathPc' = "returned"
  /\ UNCHANGED <<slug, fs, statError, probed, notPath>>

\* lines 118-120: await fs.stat(mdxPath)
StartStat ==
  /\ pathPc = "call"
  /\ ~endsWithMdx(slug)
  /\ probed' = probed \cup {mdxPath(slug)}
  /\ pathPc' = "stat"
  /\ UNCHANGED <<slug, fs, statError, resolved, notPath>>

\* line 121: the probe succeeded
StatFulfilled ==
  /\ pathPc = "stat"
  /\ statFulfils(mdxPath(slug))
  /\ resolved' = mdxPath(slug)
  /\ pathPc' = "returned"
  /\ UNCHANGED <<slug, fs, statError, probed, notPath>>

\* lines 122-124: the probe failed, whatever the error
StatRejected ==
  /\ pathPc = "stat"
  /\ ~statFulfils(mdxPath(slug))
  /\ resolved' = catchStat(slug).value
  /\ pathPc' = catchStat(slug).pc
  /\ UNCHANGED <<slug, fs, statError, probed, notPath>>

NextPath == ReturnLiteral \/ StartStat \/ StatFulfilled \/ StatRejected

SpecPath == InitPath /\ [][NextPath]_vars

(***************************************************************************)
(* Claims checked under SpecPath                                           *)
(***************************************************************************)
\* the content root <cwd>/contents/docs, as segments
ContentRoot == <<<<"w", "d">>, <<"c", "o", "n", "t", "e", "n", "t", "s">>, <<"d", "o", "c", "s">>>>

\* <contentRoot>/<rel>, resolved segment by segment
UnderRoot(rel) == NormalizeSegments(ContentRoot \o SplitPath(rel, <<>>), <<>>)

HasMdxExtension(s) ==
  /\ Len(s) >= 4
  /\ s[Len(s) - 3] = "." /\ s[Len(s) - 2] = "m" /\ s[Len(s) - 1] = "d" /\ s[Len(s)] = "x"

SiblingCandidate == UnderRoot(slug \o <<".", "m", "d", "x">>)

IndexCandidate == UnderRoot(slug \o <<"/", "i", "n", "d", "e", "x", ".", "m", "d", "x">>)

ProbeSucceeds == ~statError /\ fs[SiblingCandidate] \in {"file", "dir"}

\* C2: fixed fallback order, first match wins: a slug ending in '.mdx' gives
\* <contentRoot>/<slug> with no probe; otherwise <contentRoot>/<slug>.mdx
\* exactly when its probe succeeds; otherwise <contentRoot>/<slug>/index.mdx,
\* which is never probed, even when it does not exist.
C2_FallbackOrder ==
  pathPc = "returned" =>
    IF HasMdxExtension(slug)
    THEN resolved = UnderRoot(slug) /\ probed = {}
    ELSE /\ probed = {SiblingCandidate}
         /\ IF ProbeSucceeds
            THEN resolved = SiblingCandidate
            ELSE resolved = IndexCandidate

C2_Witness ==
  /\ pathPc = "returned"
  /\ slug = <<"a", "/", "a">>
  /\ ~statError
  /\ fs[SiblingCandidate] = "none"
  /\ fs[IndexCandidate] = "none"
  /\ resolved = IndexCandidate
  /\ resolved # SiblingCandidate

\* C16: getDocsContentPath never raises an error: when the existence probe
\* fails, for whatever reason (nothing at the path, or any other error of
\* fs.stat), the failure is swallowed and the directory-index candidate is
\* returned.
C16_ProbeFailureSwallowed ==
  /\ pathPc # "threw"
  /\ (pathPc = "returned" /\ probed # {} /\ (statError \/ fs[SiblingCandidate] = "none"))
       => resolved = IndexCandidate

\* fs.stat failed on a file that exists (an error other than not-found)
C16_Witness ==
  /\ pathPc = "returned"
  /\ probed # {}
  /\ statError
  /\ fs[SiblingCandidate] = "file"
  /\ resolved = IndexCandidate

\* a path, as segments, below the content root
InsideContentRoot(p) ==
  /\ Len(p) > Len(ContentRoot)
  /\ SubSeq(p, 1, Len(ContentRoot)) = ContentRoot

\* C24: for every slug, one with '..' segments or a leading '/' included,
\* the path getDocsContentPath returns and every path it probes lie inside
\* the content root <cwd>/contents/docs.
C24_InsideContentRoot ==
  /\ \A p \in probed : InsideContentRoot(p)
  /\ pathPc = "returned" => InsideContentRoot(resolved)

(***************************************************************************)
(* getDocsTocs (src/lib/markdown.ts)                                       *)
(***************************************************************************)
\* the line terminators of a JavaScript regular expression
IsLineTerminator(c) == c \in {"\n", "\r"}

\* ^ under the m flag: at the start of the input or right after a line terminator
AtLineStart(s, p) == p = 1 \/ (p > 1 /\ IsLineTerminator(s[p - 1]))

\* the last position of the run of non-terminators that starts at position p
RECURSIVE DotPlusEnd(_, _)
DotPlusEnd(s, p) ==
  IF p < Len(s) /\ ~IsLineTerminator(s[p + 1]) THEN DotPlusEnd(s, p + 1) ELSE p

\* (#{2,4})\s(.+)$ tried at position p with k hashes: k '#', one \s character,
\* then at least one character that is no line terminator, up to the end of
\* the line
MatchesWith(s, p, k) ==
  /\ p + k + 1 <= Len(s)
  /\ \A i \in p..(p + k - 1) : s[i] = "#"
  /\ IsSpace(s[p + k])
  /\ ~IsLineTerminator(s[p + k + 1])

\* the quantifier {2,4}
HashCounts == {2, 3, 4}

\* /^(#{2,4})\s(.+)$/m matches at position p
MatchesAt(s, p) == AtLineStart(s, p) /\ \E k \in HashCounts : MatchesWith(s, p, k)

\* match[1].length: the quantifier is greedy
MatchLevel(s, p) == CHOOSE k \in HashCounts :
  /\ MatchesWith(s, p, k)
  /\ \A j \in HashCounts : MatchesWith(s, p, j) => j <= k

\* String.prototype.trim
RECURSIVE TrimStart(_)
TrimStart(s) ==
  IF s # <<>> /\ (IsSpace(Head(s)) \/ IsLineTerminator(Head(s))) THEN TrimStart(Tail(s)) ELSE s

RECURSIVE TrimEnd(_)
TrimEnd(s) ==
  IF s # <<>> /\ (IsSpace(s[Len(s)]) \/ IsLineTerminator(s[Len(s)]))
  THEN TrimEnd(SubSeq(s, 1, Len(s) - 1))
  ELSE s

trim(s) == TrimEnd(TrimStart(s))

\* lines 83-90: the entry pushed for the match at position p
TocEntryAt(s, p) ==
  LET k == MatchLevel(s, p)
      headingText2 == trim(SubSeq(s, p + k + 1, DotPlusEnd(s, p + k + 1)))
  IN [level |-> k, text |-> headingText2, href |-> <<"#">> \o sluggify(headingText2)]

\* lines 82-91: the loop of headingsRegex.exec(rawMdx), lastIndex = p - 1
RECURSIVE ExecLoop(_, _, _)
ExecLoop(s, p, out) ==
  IF p > Len(s) THEN out
  ELSE IF MatchesAt(s, p)
  THEN ExecLoop(s, DotPlusEnd(s, p + MatchLevel(s, p) + 1) + 1, Append(out, TocEntryAt(s, p)))
  ELSE ExecLoop(s, p + 1, out)

(***************************************************************************)
(* Specification SpecToc: one call of getDocsTocs                          *)
(***************************************************************************)
DocAlphabet == {"#", " ", "\n", "B"}

Docs == SeqsUpTo(DocAlphabet, MaxDocLen)

TocSlugs == {<<"a">>, <<"a", ".", "m", "d", "x">>}

Candidates(s) == {pathJoin(s), mdxPath(s), indexPath(s)}

\* the file systems of SpecToc: at most one of the candidate paths is a file
OneFileAt(s) ==
  {[p \in Candidates(s) |-> IF p = q THEN "file" ELSE "none"] : q \in Candidates(s) \cup {<<>>}}

InitToc ==
  /\ slug \in TocSlugs
  /\ fs \in OneFileAt(slug)
  /\ statError = FALSE
  /\ probed = {}
  /\ pathPc = "call"
  /\ resolved = <<>>
  /\ rawMdx = <<>>
  /\ tocPc = "resolving"
  /\ extractedHeadings = <<>>
  /\ IdleSlug
  /\ IdleHead
  /\ IdleBatch
  /\ IdleDoc
  /\ IdleNav
  /\ IdleCall
  /\ IdleRerun
  /\ IdlePair

\* the error object fs.readFile rejects with when nothing readable is at p
readFileError(p) ==
  [code |-> IF p \in DOMAIN fs /\ fs[p] = "dir" THEN "EISDIR" ELSE "ENOENT", path |-> p]

\* line 78: getDocsContentPath has returned, fs.readFile(contentPath) is awaited
TocReadFile ==
  /\ tocPc = "resolving"
  /\ pathPc = "returned"
  /\ tocPc' = "reading"
  /\ UNCHANGED <<rawMdx, extractedHeadings, pathVars, callVars, notToc>>

\* lines 78-92: the read fulfils with the file's text, the headings are
\* extracted and returned
TocReadFulfilled ==
  /\ tocPc = "reading"
  /\ resolved \in DOMAIN fs
  /\ fs[resolved] = "file"
  /\ \E text \in Docs :
       /\ rawMdx' = text
       /\ extractedHeadings' = ExecLoop(text, 1, <<>>)
  /\ tocPc' = "done"
  /\ UNCHANGED <<pathVars, callVars, notToc>>

\* line 78: the read rejects (nothing readable at the resolved path); the
\* function has no try block, so the rejection reaches the caller as it is and
\* nothing is printed
TocReadRejected ==
  /\ tocPc = "reading"
  /\ ~(resolved \in DOMAIN fs /\ fs[resolved] = "file")
  /\ readError' = readFileError(resolved)
  /\ caught' = readError'
  /\ tocPc' = "threw"
  /\ UNCHANGED <<rawMdx, extractedHeadings, docsPc, errorLog, pathVars, notToc>>

NextToc ==
  \/ ReturnLiteral \/ StartStat \/ StatFulfilled \/ StatRejected
  \/ TocReadFile \/ TocReadFulfilled \/ TocReadRejected

SpecToc == InitToc /\ [][NextToc]_vars

(***************************************************************************)
(* Claims checked under SpecToc                                            *)
(***************************************************************************)
\* the lines of a text: the pieces between its newline characters
RECURSIVE LinesOf(_, _)
LinesOf(s, line) ==
  IF s = <<>> THEN <<line>>
  ELSE IF Head(s) = "\n" THEN <<line>> \o LinesOf(Tail(s), <<>>)
  ELSE LinesOf(Tail(s), Append(line, Head(s)))

\* a line of k leading '#', one whitespace character and remaining content
IsHeadingLineOf(line, k) ==
  /\ Len(line) >= k + 2
  /\ \A i \in 1..k : line[i] = "#"
  /\ line[k + 1] \in {" ", "\t"}

IsHeadingLine(line) == \E k \in 2..4 : IsHeadingLineOf(line, k)

HeadingLines(s) == SelectSeq(LinesOf(s, <<>>), IsHeadingLine)

\* C5: getDocsTocs returns exactly one TocEntry for each line made of 2 to 4
\* leading '#', one whitespace character and remaining content on that same
\* line, in source order, and no entry for any other line.
C5_EntriesAreHeadingLines ==
  tocPc = "done" =>
    LET hl == HeadingLines(rawMdx)
    IN /\ Len(extractedHeadings) = Len(hl)
       /\ \A i \in 1..Len(hl) :
            IsHeadingLineOf(hl[i], extractedHeadings[i].level)

\* the number of '#' characters a line starts with
LeadingHashes(line) ==
  Cardinality({k \in 1..Len(line) : \A i \in 1..k : line[i] = "#"})

\* C18: every TocEntry is derived from one line of the text: its level is the
\* number of '#' the line starts with and lies in 2..4, its text is the rest
\* of that line without the whitespace around it, and its href is '#'
\* followed by sluggify(text).
C18_EntryFromLine ==
  tocPc = "done" =>
    \A n \in 1..Len(extractedHeadings) :
      LET e == extractedHeadings[n]
          lines == LinesOf(rawMdx, <<>>)
      IN /\ e.level \in 2..4
         /\ e.href = <<"#">> \o sluggify(e.text)
         /\ \E l \in 1..Len(lines) :
              /\ LeadingHashes(lines[l]) = e.level
              /\ e.text = trim(SubSeq(lines[l], e.level + 1, Len(lines[l])))

(***************************************************************************)
(* extractHeadings on a node tree (src/unnamed/part_000)                   *)
(***************************************************************************)
\* visit(tree, 'heading', ...): the heading nodes of a list of block nodes in
\* the order of the traversal, parents before children, siblings in order
RECURSIVE HeadingNodes(_)
HeadingNodes(nodes) ==
  IF nodes = <<>> THEN <<>>
  ELSE LET node == Head(nodes)
       IN IF node.type = "heading" THEN <<node>> \o HeadingNodes(Tail(nodes))
          ELSE IF node.type = "blockquote"
          THEN HeadingNodes(node.children) \o HeadingNodes(Tail(nodes))
          ELSE HeadingNodes(Tail(nodes))

RECURSIVE VisitAll(_, _)
VisitAll(hs, nodes) ==
  IF nodes = <<>> THEN hs ELSE VisitAll(visitHeading(hs, Head(nodes)), Tail(nodes))

\* extractHeadings, lines 51-74, from the parsed tree on
extractHeadings(root) == VisitAll(<<>>, HeadingNodes(root.children))

(***************************************************************************)
(* Specification SpecHead: extractHeadings on one parsed document          *)
(***************************************************************************)
MaxChildren == 2
MaxNodes == 2

\* the children a heading node can have: plain text with a word character,
\* plain text of punctuation only, and inline code (not plain text, although
\* it has a value of its own)
InlineNodes ==
  {[type |-> "text", value |-> <<"A">>],
   [type |-> "text", value |-> <<"?">>],
   [type |-> "inlineCode", value |-> <<"c">>]}

HeadingNodesOf(depths, n) ==
  {[type |-> "heading", depth |-> d, children |-> cs] :
     d \in depths, cs \in SeqsUpTo(InlineNodes, n)}

Paragraph == [type |-> "paragraph", depth |-> 0, children |-> <<>>]

\* headings of level 1 with up to MaxChildren children, headings of level 5
\* and headings of level 2 inside a block quote with at most one child
BlockNodes ==
  HeadingNodesOf({1}, MaxChildren) \cup HeadingNodesOf({5}, 1) \cup {Paragraph}
    \cup {[type |-> "blockquote", depth |-> 0, children |-> <<h>>] :
            h \in HeadingNodesOf({2}, 1)}

Trees == {[type |-> "root", children |-> bs] : bs \in SeqsUpTo(BlockNodes, MaxNodes)}

InitHead ==
  /\ tree \in Trees
  /\ headPc = "parsed"
  /\ IdleSlug
  /\ IdlePath
  /\ IdleToc
  /\ IdleBatch
  /\ IdleDoc
  /\ IdleNav
  /\ IdleCall
  /\ IdleRerun
  /\ IdlePair

ExtractHeadings ==
  /\ headPc = "parsed"
  /\ headings' = extractHeadings(tree)
  /\ headPc' = "done"
  /\ UNCHANGED <<tree, headingText, tocHref, tocDone, visits, notHead>>

NextHead == ExtractHeadings

SpecHead == InitHead /\ [][NextHead]_vars

(***************************************************************************)
(* Claims checked under SpecHead                                           *)
(***************************************************************************)
\* the concatenation of the values of a node's direct plain-text children
RECURSIVE DirectText(_)
DirectText(children) ==
  IF children = <<>> THEN <<>>
  ELSE (IF Head(children).type = "text" THEN Head(children).value ELSE <<>>)
         \o DirectText(Tail(children))

HasWordChar(s) == \E i \in 1..Len(s) : IsWord(s[i])

KeepsHeading(node) == HasWordChar(DirectText(node.children))

DOCS_ROOT == <<"cwd", "contents", "docs">>

\* the order in which readdirSync lists the names of one directory
NameRank(name) ==
  CASE name = "index.mdx" -> 2
    [] name = "notes.mdx" -> 3
    [] OTHER -> 1

\* fs.readdirSync(dir, {withFileTypes: true}): the entries directly in dir
readdirSync(dir) ==
  LET here == {p \in DOMAIN contentTree :
                 Len(p) = Len(dir) + 1 /\ SubSeq(p, 1, Len(dir)) = dir}
      byRank(r) == {p \in here : NameRank(p[Len(p)]) = r}
      entry(p) == [name |-> p[Len(p)], kind |-> contentTree[p]]
      listed(r) == IF byRank(r) = {} THEN <<>> ELSE <<entry(CHOOSE p \in byRank(r) : TRUE)>>
  IN listed(1) \o listed(2) \o listed(3)

\* faulty variant: the name of the file is not compared
isAnyFile(entry) == entry.kind = "file"

\* entry.isFile() && entry.name === 'index.mdx', line 39
isIndexFile(entry) == entry.kind = "file" /\ entry.name = "index.mdx"

RECURSIVE getAllIndexMDXFiles(_)
RECURSIVE forEachEntry(_, _, _)

\* lines 33-43: the forEach callback applied to the entries in order
forEachEntry(dir, entries, found) ==
  IF entries = <<>> THEN found
  ELSE LET entry == Head(entries)
           fullPath == Append(dir, entry.name)
       IN IF entry.kind = "dir"
          THEN forEachEntry(dir, Tail(entries), found \o getAllIndexMDXFiles(fullPath))
          ELSE IF isIndexFile(entry)
          THEN forEachEntry(dir, Tail(entries), Append(found, fullPath))
          ELSE forEachEntry(dir, Tail(entries), found)

\* lines 30-46
getAllIndexMDXFiles(dir) == forEachEntry(dir, readdirSync(dir), <<>>)

(***************************************************************************)
(* Content trees                                                           *)
(***************************************************************************)
\* the name of the one subdirectory a directory of each level can hold
DirNames == <<"a", "b", "c", "d", "e", "f">>

EmptyTree == [p \in {} |-> "none"]

\* every tree under dir with at most `levels` more levels of entries: an
\* index.mdx that is absent, a file, a symbolic link or a directory, a
\* notes.mdx that is absent or a file, and a subdirectory or none
RECURSIVE TreesUnder(_, _)
TreesUnder(dir, levels) ==
  IF levels = 0 THEN {EmptyTree}
  ELSE LET sub == Append(dir, DirNames[Len(dir) - Len(DOCS_ROOT) + 1])
           indexes == {EmptyTree} \cup
                      {(Append(dir, "index.mdx") :> k) : k \in {"file", "symlink", "dir"}}
           notes == {EmptyTree, (Append(dir, "notes.mdx") :> "file")}
           subs == {EmptyTree} \cup {(sub :> "dir") @@ t : t \in TreesUnder(sub, levels - 1)}
       IN {i @@ n @@ t : i \in indexes, n \in notes, t \in subs}

ContentTrees == TreesUnder(DOCS_ROOT, MaxDepth)

(***************************************************************************)
(* Specification SpecDiscover: getAllIndexMDXFiles(DOCS_ROOT) on one tree  *)
(***************************************************************************)
PreviousArtifact == [state |-> "previous", index |-> <<>>]

InitDiscover ==
  /\ contentTree \in ContentTrees
  /\ rootReadable = TRUE
  /\ fileState = <<>>
  /\ files = <<>>
  /\ tasks = <<>>
  /\ taskResults = <<>>
  /\ settled = <<>>
  /\ artifact = PreviousArtifact
  /\ console = <<>>
  /\ batchPc = "start"
  /\ exitStatus = -1
  /\ IdleSlug
  /\ IdlePath
  /\ IdleToc
  /\ IdleHead
  /\ IdleDoc
  /\ IdleNav
  /\ IdleCall
  /\ IdleRerun
  /\ IdlePair

\* line 111
DiscoverFiles ==
  /\ batchPc = "start"
  /\ files' = getAllIndexMDXFiles(DOCS_ROOT)
  /\ batchPc' = "discovered"
  /\ UNCHANGED <<contentTree, rootReadable, fileState, tasks, taskResults, settled,
                 artifact, console, exitStatus, notBatch>>

NextDiscover == DiscoverFiles

SpecDiscover == InitDiscover /\ [][NextDiscover]_vars

(***************************************************************************)
(* Claims checked under SpecDiscover                                       *)
(***************************************************************************)
IndexFilesOf(t) == {p \in DOMAIN t : t[p] = "file" /\ p[Len(p)] = "index.mdx"}

\* C6: discovery returns exactly the files named index.mdx, at every depth,
\* each exactly once; no other file at any depth, nothing for a directory
\* without an index file.
C6_ExactlyIndexFiles ==
  batchPc = "discovered" =>
    /\ {files[i] : i \in 1..Len(files)} = IndexFilesOf(contentTree)
    /\ Len(files) = Cardinality(IndexFilesOf(contentTree))

\* the tree a/index.mdx, a/b/index.mdx, a/notes.mdx
C6_Witness ==
  /\ batchPc = "discovered"
  /\ DOMAIN contentTree =
       {DOCS_ROOT \o <<"a">>, DOCS_ROOT \o <<"a", "index.mdx">>,
        DOCS_ROOT \o <<"a", "notes.mdx">>, DOCS_ROOT \o <<"a", "b">>,
        DOCS_ROOT \o <<"a", "b", "index.mdx">>}
  /\ contentTree[DOCS_ROOT \o <<"a", "index.mdx">>] = "file"
  /\ contentTree[DOCS_ROOT \o <<"a", "b", "index.mdx">>] = "file"
  /\ Len(files) = 2
  /\ \A i \in 1..Len(files) : files[i][Len(files[i])] = "index.mdx"

(***************************************************************************)
(* extractTextFromMDX and generateSearchIndex (src/unnamed/part_000)       *)
(***************************************************************************)
\* the names of a path joined with '/'
RECURSIVE JoinNames(_)
JoinNames(names) ==
  IF names = <<>> THEN <<>>
  ELSE IF Len(names) = 1 THEN names
  ELSE <<Head(names), "/">> \o JoinNames(Tail(names))

\* faulty variant: path.dirname is missing, the path of the file itself is
\* taken relative to DOCS_ROOT
relativePathOfFile(filePath) ==
  JoinNames(SubSeq(filePath, Len(DOCS_ROOT) + 1, Len(filePath)))

\* path.relative(DOCS_ROOT, path.dirname(filePath)), line 93
relativePath(filePath) ==
  JoinNames(SubSeq(filePath, Len(DOCS_ROOT) + 1, Len(filePath) - 1))

\* faulty variant: shift() in place of pop(), the first segment is taken
folderNameFirst(rel) == IF rel = <<>> THEN rel ELSE <<rel[1]>>

\* relativePath.split('/').pop() || relativePath, line 95
folderName(rel) == IF rel = <<>> THEN rel ELSE <<rel[Len(rel)]>>

\* the SearchDocument of lines 97-104, as far as the path determines it
extractTextFromMDX(filePath) ==
  LET rel == relativePath(filePath)
  IN [id |-> rel, folderName |-> folderName(rel), url |-> <<"/", "docs", "/">> \o rel]

NoDocument == [id |-> <<"none">>, folderName |-> <<>>, url |-> <<>>]

\* faulty variant: the results are collected as the promises fulfil
promiseAllByCompletion(results, order) == [k \in 1..Len(order) |-> results[order[k]]]

\* the value Promise.all fulfils with: the results in the order of the promises
promiseAll(results, order) == results

\* faulty variant: the write waits until no promise is pending (Promise.allSettled)
allSettled(ts) == \A i \in 1..Len(ts) : ts[i] # "pending"

\* Promise.all fulfils: every promise has fulfilled
allFulfilled(ts) == \A i \in 1..Len(ts) : ts[i] = "fulfilled"

\* Promise.all rejects: some promise has rejected
someRejected(ts) == \E i \in 1..Len(ts) : ts[i] = "rejected"

(***************************************************************************)
(* Specification SpecBatch: one run of the batch job                       *)
(***************************************************************************)
\* the trees of SpecBatch: directories and index.mdx files only
BatchTrees == {t \in ContentTrees : \A p \in DOMAIN t :
                 t[p] = (IF p[Len(p)] = "index.mdx" THEN "file" ELSE "dir")}

\* "ok"; "unreadable": readFileSync or matter throws; "unparsable": the
\* promise of unified().process(content) rejects
FileStates == {"ok", "unreadable", "unparsable"}

InitBatch ==
  /\ contentTree \in BatchTrees
  /\ rootReadable \in BOOLEAN
  /\ fileState \in [IndexFilesOf(contentTree) -> FileStates]
  /\ files = <<>>
  /\ tasks = <<>>
  /\ taskResults = <<>>
  /\ settled = <<>>
  /\ artifact = PreviousArtifact
  /\ console = <<>>
  /\ batchPc = "start"
  /\ exitStatus = -1
  /\ IdleSlug
  /\ IdlePath
  /\ IdleToc
  /\ IdleHead
  /\ IdleDoc
  /\ IdleNav
  /\ IdleCall
  /\ IdleRerun
  /\ IdlePair

\* lines 111-114, up to the await: discovery, then files.map starts one call
\* of extractTextFromMDX per file; each runs to its first await (line 84), or
\* throws before it (lines 80-81), which rejects its promise
StartBatch ==
  /\ batchPc = "start"
  /\ rootReadable
  /\ files' = getAllIndexMDXFiles(DOCS_ROOT)
  /\ tasks' = [i \in 1..Len(files') |->
                 IF fileState[files'[i]] = "unreadable" THEN "rejected" ELSE "pending"]
  /\ taskResults' = [i \in 1..Len(files') |-> NoDocument]
  /\ batchPc' = "awaiting"
  /\ UNCHANGED <<contentTree, rootReadable, fileState, settled, artifact, console,
                 exitStatus, notBatch>>

\* line 111: readdirSync throws, the promise of generateSearchIndex rejects
DiscoveryThrows ==
  /\ batchPc = "start"
  /\ ~rootReadable
  /\ batchPc' = "rejected"
  /\ UNCHANGED <<contentTree, rootReadable, fileState, files, tasks, taskResults, settled,
                 artifact, console, exitStatus, notBatch>>

\* lines 84-104: the processor of task i finishes and the document is returned
TaskFulfils(i) ==
  /\ tasks[i] = "pending"
  /\ fileState[files[i]] = "ok"
  /\ tasks' = [tasks EXCEPT ![i] = "fulfilled"]
  /\ taskResults' = [taskResults EXCEPT ![i] = extractTextFromMDX(files[i])]
  /\ settled' = Append(settled, i)
  /\ UNCHANGED <<contentTree, rootReadable, fileState, files, artifact, console, batchPc,
                 exitStatus, notBatch>>

\* lines 84-87: the processor of task i fails
TaskRejects(i) ==
  /\ tasks[i] = "pending"
  /\ fileState[files[i]] = "unparsable"
  /\ tasks' = [tasks EXCEPT ![i] = "rejected"]
  /\ UNCHANGED <<contentTree, rootReadable, fileState, files, taskResults, settled,
                 artifact, console, batchPc, exitStatus, notBatch>>

\* lines 112-117: Promise.all has fulfilled, the index is written and the
\* confirmation printed
WriteSucceeds ==
  /\ batchPc = "awaiting"
  /\ allFulfilled(tasks)
  /\ artifact' = [state |-> "written", index |-> promiseAll(taskResults, settled)]
  /\ console' = Append(console, [stream |-> "log", what |-> "Search index generated"])
  /\ batchPc' = "resolved"
  /\ UNCHANGED <<contentTree, rootReadable, fileState, files, tasks, taskResults, settled,
                 exitStatus, notBatch>>

\* faulty variant: the confirmation of line 117 is printed before the write
\* of line 116, so it is on the console when the write throws
WriteThrowsAfterLog ==
  /\ batchPc = "awaiting"
  /\ allFulfilled(tasks)
  /\ artifact' \in {artifact, [state |-> "truncated", index |-> <<>>]}
  /\ console' = Append(console, [stream |-> "log", what |-> "Search index generated"])
  /\ batchPc' = "rejected"
  /\ UNCHANGED <<contentTree, rootReadable, fileState, files, tasks, taskResults, settled,
                 exitStatus, notBatch>>

\* line 116: writeFileSync throws; the file is untouched or left truncated
WriteThrows ==
  /\ batchPc = "awaiting"
  /\ allFulfilled(tasks)
  /\ artifact' \in {artifact, [state |-> "truncated", index |-> <<>>]}
  /\ batchPc' = "rejected"
  /\ UNCHANGED <<contentTree, rootReadable, fileState, files, tasks, taskResults, settled,
                 console, exitStatus, notBatch>>

\* line 112: Promise.all has rejected, the promise of generateSearchIndex
\* rejects; the other tasks are not cancelled
BatchRejects ==
  /\ batchPc = "awaiting"
  /\ someRejected(tasks)
  /\ batchPc' = "rejected"
  /\ UNCHANGED <<contentTree, rootReadable, fileState, files, tasks, taskResults, settled,
                 artifact, console, exitStatus, notBatch>>

\* faulty variant: .catch(() => {}), the rejection is handled and not printed
CatchSilently ==
  /\ batchPc = "rejected"
  /\ batchPc' = "caught"
  /\ UNCHANGED <<contentTree, rootReadable, fileState, files, tasks, taskResults, settled,
                 artifact, console, exitStatus, notBatch>>

\* line 121: .catch(console.error)
CatchLogs ==
  /\ batchPc = "rejected"
  /\ console' = Append(console, [stream |-> "error", what |-> "error"])
  /\ batchPc' = "caught"
  /\ UNCHANGED <<contentTree, rootReadable, fileState, files, tasks, taskResults, settled,
                 artifact, exitStatus, notBatch>>

\* line 121: the rejection is handled and nothing sets an exit code, so once
\* no work is left the process ends with status 0
ProcessExits ==
  /\ batchPc \in {"resolved", "caught"}
  /\ exitStatus = -1
  /\ \A i \in 1..Len(tasks) : tasks[i] # "pending"
  /\ exitStatus' = 0
  /\ UNCHANGED <<contentTree, rootReadable, fileState, files, tasks, taskResults, settled,
                 artifact, console, batchPc, notBatch>>

NextBatch ==
  \/ StartBatch
  \/ DiscoveryThrows
  \/ \E i \in 1..Len(tasks) : TaskFulfils(i)
  \/ \E i \in 1..Len(tasks) : TaskRejects(i)
  \/ WriteSucceeds
  \/ WriteThrows
  \/ BatchRejects
  \/ CatchLogs
  \/ ProcessExits

SpecBatch == InitBatch /\ [][NextBatch]_vars

(***************************************************************************)
(* Claims checked under SpecBatch                                          *)
(***************************************************************************)
ExtractionFails == \E i \in 1..Len(files) : fileState[files[i]] # "ok"

\* C3: if the extraction of any discovered document fails, the artifact is
\* not written in that run: it stays as it was, and no partial index is ever
\* written.
C3_NoWriteOnFailure ==
  (batchPc # "start" /\ ExtractionFails) => artifact = PreviousArtifact

C3_Witness ==
  /\ exitStatus = 0
  /\ Len(files) = 2
  /\ tasks = <<"fulfilled", "rejected">>
  /\ artifact = PreviousArtifact

\* C4: in a successful build the written index has one SearchDocument per
\* discovered file, the i-th one extracted from the i-th discovered file,
\* whatever the completion order of the tasks.
C4_DiscoveryOrder ==
  batchPc = "resolved" =>
    /\ artifact.state = "written"
    /\ Len(artifact.index) = Len(files)
    /\ \A i \in 1..Len(files) : artifact.index[i] = extractTextFromMDX(files[i])

C4_Witness ==
  /\ batchPc = "resolved"
  /\ Len(files) = 3
  /\ settled = <<3, 1, 2>>
  /\ artifact.index[1].id # artifact.index[3].id

ErrorLogged == \E k \in 1..Len(console) : console[k].stream = "error"

\* C7: when the build fails with any unhandled error, the process logs the
\* error and terminates with a non-zero exit status.
C7_NonZeroExit ==
  (batchPc = "caught" /\ exitStatus # -1) => (ErrorLogged /\ exitStatus # 0)

(***************************************************************************)
(* extractTextFromMDX, the fields read from the file (src/unnamed/part_000) *)
(***************************************************************************)
\* a front matter value: its YAML type and its text
StringValue(chars) == [type |-> "string", value |-> chars]

Undefined == [type |-> "undefined", value |-> <<>>]

\* data.title, line 99: undefined when the front matter has no title field
dataTitle(d) == IF "title" \in d.fields THEN d.title ELSE Undefined

\* the conversion of a value to a boolean that the operator || applies
toBoolean(v) ==
  CASE v.type = "string" -> v.value # <<>>
    [] v.type = "number" -> v.value # <<"0">>
    [] v.type = "boolean" -> v.value = <<"true">>
    [] OTHER -> FALSE

\* faulty variant: data.title ?? relativePath, only a missing title falls back
titleIfDefined(d, rel) ==
  IF dataTitle(d).type \notin {"undefined", "null"} THEN dataTitle(d) ELSE StringValue(rel)

\* data.title || relativePath, line 99
titleOrRelativePath(d, rel) ==
  IF toBoolean(dataTitle(d)) THEN dataTitle(d) ELSE StringValue(rel)

\* the character U+0060 that fences inline code
Backtick == "U+0060"

\* remark-stringify, line 86: the serializer writes the tree back as markdown
RECURSIVE stringifyInline(_)
stringifyInline(nodes) ==
  IF nodes = <<>> THEN <<>>
  ELSE LET node == Head(nodes)
           out == CASE node.type = "text" -> node.value
                    [] node.type = "inlineCode" -> <<Backtick>> \o node.value \o <<Backtick>>
                    [] node.type = "strong" ->
                         <<"*", "*">> \o stringifyInline(node.children) \o <<"*", "*">>
                    [] OTHER -> <<>>
       IN out \o stringifyInline(Tail(nodes))

stringifyBlock(node) ==
  CASE node.type = "heading" ->
         [i \in 1..node.depth |-> "#"] \o <<" ">> \o stringifyInline(node.children)
    [] node.type = "paragraph" -> stringifyInline(node.children)
    [] OTHER -> <<>>

\* the blocks are separated by a blank line
RECURSIVE stringifyBlocks(_)
stringifyBlocks(nodes) ==
  IF nodes = <<>> THEN <<>>
  ELSE IF Len(nodes) = 1 THEN stringifyBlock(Head(nodes))
  ELSE stringifyBlock(Head(nodes)) \o <<"\n", "\n">> \o stringifyBlocks(Tail(nodes))

\* lines 84-87: unified().use(remarkParse).use(remarkStringify).process(content),
\* from the parsed tree on; a document that is not empty ends with a newline
remarkStringify(root) ==
  IF root.children = <<>> THEN <<>> ELSE stringifyBlocks(root.children) \o <<"\n">>

\* faulty variant: .replace(/\n/g, ' '), every newline becomes a space
RECURSIVE replaceEachNewline(_)
replaceEachNewline(s) ==
  IF s = <<>> THEN <<>>
  ELSE IF Head(s) = "\n" THEN <<" ">> \o replaceEachNewline(Tail(s))
  ELSE <<Head(s)>> \o replaceEachNewline(Tail(s))

RECURSIVE SkipNewlines(_)
SkipNewlines(s) == IF s # <<>> /\ Head(s) = "\n" THEN SkipNewlines(Tail(s)) ELSE s

\* .replace(/\n+/g, ' '), line 101
RECURSIVE replaceNewlineRuns(_)
replaceNewlineRuns(s) ==
  IF s = <<>> THEN <<>>
  ELSE IF Head(s) = "\n" THEN <<" ">> \o replaceNewlineRuns(SkipNewlines(s))
  ELSE <<Head(s)>> \o replaceNewlineRuns(Tail(s))

\* the SearchDocument of lines 97-104
SearchDocument(file, d, root) ==
  LET plainText == remarkStringify(root)
      rel == relativePath(file)
  IN [id |-> rel,
      title |-> titleOrRelativePath(d, rel),
      folderName |-> folderName(rel),
      content |-> trim(replaceNewlineRuns(plainText)),
      url |-> <<"/", "docs", "/">> \o rel,
      headings |-> extractHeadings(root)]

(***************************************************************************)
(* Specification SpecExtract: one call of extractTextFromMDX that succeeds *)
(***************************************************************************)
MaxBlocks == 2

\* an index file in the content root, in a top-level directory, and deeper
IndexFiles ==
  {DOCS_ROOT \o SubSeq(DirNames, 1, k) \o <<"index.mdx">> : k \in 0..(MaxDepth - 1)}

\* title values of each YAML type, falsy and truthy
TitleValues ==
  {StringValue(<<"B", "a">>), StringValue(<<>>),
   [type |-> "number", value |-> <<"0">>], [type |-> "number", value |-> <<"7">>],
   [type |-> "boolean", value |-> <<"false">>], [type |-> "boolean", value |-> <<"true">>],
   [type |-> "null", value |-> <<>>]}

FrontMatters ==
  {[fields |-> {}, title |-> Undefined]} \cup
  {[fields |-> {"title"}, title |-> v] : v \in TitleValues}

Text(chars) == [type |-> "text", value |-> chars, children |-> <<>>]

Strong(nodes) == [type |-> "strong", value |-> <<>>, children |-> nodes]

\* "# Ba", a level 2 heading with inline code, "a **b** a" and a paragraph of
\* two lines
BodyBlocks ==
  {[type |-> "heading", depth |-> 1, children |-> <<Text(<<"B", "a">>)>>],
   [type |-> "heading", depth |-> 2,
    children |-> <<Text(<<"a", " ">>),
                   [type |-> "inlineCode", value |-> <<"b">>, children |-> <<>>]>>],
   [type |-> "paragraph", depth |-> 0,
    children |-> <<Text(<<"a", " ">>), Strong(<<Text(<<"b">>)>>), Text(<<" ", "a">>)>>],
   [type |-> "paragraph", depth |-> 0, children |-> <<Text(<<"a", "\n", "b">>)>>]}

Bodies == {[type |-> "root", children |-> bs] : bs \in SeqsUpTo(BodyBlocks, MaxBlocks)}

InitExtract ==
  /\ indexFile \in IndexFiles
  /\ frontMatter \in FrontMatters
  /\ mdast \in Bodies
  /\ document = <<>>
  /\ extractPc = "call"
  /\ IdleSlug
  /\ IdlePath
  /\ IdleToc
  /\ IdleHead
  /\ IdleBatch
  /\ IdleNav
  /\ IdleCall
  /\ IdleRerun
  /\ IdlePair

\* lines 79-104
ExtractText ==
  /\ extractPc = "call"
  /\ document' = SearchDocument(indexFile, frontMatter, mdast)
  /\ extractPc' = "returned"
  /\ UNCHANGED <<indexFile, frontMatter, mdast, notDoc>>

NextExtract == ExtractText

SpecExtract == InitExtract /\ [][NextExtract]_vars

\* the directory of a file relative to the content root, read off the path
\* name by name
RelativeDirOf(file) ==
  LET n == Len(file) - Len(DOCS_ROOT) - 1
  IN [i \in 1..(IF n = 0 THEN 0 ELSE 2 * n - 1) |->
        IF i % 2 = 1 THEN file[Len(DOCS_ROOT) + (i + 1) \div 2] ELSE "/"]

RelativeDir == RelativeDirOf(indexFile)

\* the values of a title field that JavaScript counts as false
FalsyTitles ==
  {StringValue(<<>>), [type |-> "number", value |-> <<"0">>],
   [type |-> "boolean", value |-> <<"false">>], [type |-> "null", value |-> <<>>]}

\* C11, as stated: the title of an indexed document is the title field of the
\* front matter whenever the front matter declares one, whatever its value,
\* and the relative directory path only when it declares none.
C11_Original ==
  extractPc = "returned" =>
    document.title = (IF "title" \in frontMatter.fields THEN frontMatter.title
                      ELSE StringValue(RelativeDir))

\* C11, amended: the title of an indexed document is the title field of the
\* front matter when the front matter declares one whose value is not falsy
\* (empty string, 0, false, null); otherwise, also when no title field is
\* declared, it is the relative directory path.
C11_TruthyTitle ==
  extractPc = "returned" =>
    document.title = (IF "title" \in frontMatter.fields /\ frontMatter.title \notin FalsyTitles
                      THEN frontMatter.title
                      ELSE StringValue(RelativeDir))

C11_Witness ==
  /\ extractPc = "returned"
  /\ "title" \in frontMatter.fields
  /\ frontMatter.title = StringValue(<<>>)
  /\ document.title = StringValue(<<"a", "/", "b">>)

\* the body '# Ba', blank line, 'a **b** a'
ExampleBody ==
  [type |-> "root",
   children |-> <<[type |-> "heading", depth |-> 1, children |-> <<Text(<<"B", "a">>)>>],
                  [type |-> "paragraph", depth |-> 0,
                   children |-> <<Text(<<"a", " ">>), Strong(<<Text(<<"b">>)>>),
                                  Text(<<" ", "a">>)>>]>>]

Occurs(word, s) == \E i \in 1..(Len(s) - Len(word) + 1) : SubSeq(s, i, i + Len(word) - 1) = word

\* C12: the content of a document is a plain-text rendering of its body with
\* the markdown markers removed: no content holds an emphasis marker '*' or a
\* heading marker '#', and for the body '# Ba', blank line, 'a **b** a' the
\* content holds the emphasised word.
C12_MarkersRemoved ==
  extractPc = "returned" =>
    /\ \A i \in 1..Len(document.content) : document.content[i] \notin {"*", "#"}
    /\ mdast = ExampleBody => Occurs(<<"b">>, document.content)

\* C19: for the relative directory path R of an indexed document, url is
\* '/docs/' followed by R, and folderName is what follows the last '/' of R,
\* or R itself when R holds no '/' (the content root's own index file, where R
\* is empty, included).
C19_UrlAndFolderName ==
  extractPc = "returned" =>
    LET R == RelativeDir
        S == {i \in 1..Len(R) : R[i] = "/"}
    IN /\ document.url = <<"/", "docs", "/">> \o R
       /\ document.folderName =
            (IF S = {} THEN R ELSE SubSeq(R, NthOf(S, Cardinality(S)) + 1, Len(R)))

C19_Witness ==
  /\ extractPc = "returned"
  /\ RelativeDir = <<"a", "/", "b">>
  /\ document.folderName = <<"b">>
  /\ document.url = <<"/", "docs", "/", "a", "/", "b">>

\* a text with every run of newlines replaced by one space, stated by
\* positions: a newline is kept (as a space) only when it starts a run
NewlineRunsSpaced(s) ==
  LET K == {i \in 1..Len(s) : s[i] # "\n" \/ i = 1 \/ s[i - 1] # "\n"}
  IN [k \in 1..Cardinality(K) |-> IF s[NthOf(K, k)] = "\n" THEN " " ELSE s[NthOf(K, k)]]

\* a text without its leading and trailing whitespace, stated by positions
Trimmed(s) ==
  LET B == {i \in 1..Len(s) : ~IsSpace(s[i])}
  IN IF B = {} THEN <<>> ELSE SubSeq(s, NthOf(B, 1), NthOf(B, Cardinality(B)))

\* C20: the content of a document holds no newline and neither starts nor
\* ends with whitespace: it is the rendered text with every run of newlines
\* replaced by a single space, trimmed.
C20_ContentOneLine ==
  extractPc = "returned" =>
    LET c == document.content
    IN /\ \A i \in 1..Len(c) : c[i] # "\n"
       /\ c # <<>> => (~IsSpace(c[1]) /\ ~IsSpace(c[Len(c)]))
       /\ c = Trimmed(NewlineRunsSpaced(remarkStringify(mdast)))

\* two blocks, the second a paragraph of two lines: the rendered text has a
\* run of two newlines, a single newline and a trailing newline
C20_Witness ==
  /\ extractPc = "returned"
  /\ Len(mdast.children) = 2
  /\ Occurs(<<"\n", "\n">>, remarkStringify(mdast))
  /\ Occurs(<<"a", "\n", "b", "\n">>, remarkStringify(mdast))
  /\ Occurs(<<" ", "a", " ", "b">>, document.content)

(***************************************************************************)
(* Further claims checked under SpecBatch                                  *)
(***************************************************************************)
\* C13: in every index a batch build has written, the id of each document is
\* the directory of its index file relative to the content root, and no two
\* documents of the index have the same id.
C13_IdIsRelativeDir ==
  artifact.state = "written" =>
    /\ Len(artifact.index) = Len(files)
    /\ \A i \in 1..Len(files) : artifact.index[i].id = RelativeDirOf(files[i])
    /\ \A i, j \in 1..Len(artifact.index) :
         i # j => artifact.index[i].id # artifact.index[j].id

\* an index of three documents: the content root's, a top-level directory's
\* and a nested directory's
C13_Witness ==
  /\ artifact.state = "written"
  /\ Len(artifact.index) = 3
  /\ {artifact.index[i].id : i \in 1..3} = {<<>>, <<"a">>, <<"a", "/", "b">>}

ConfirmationPrinted ==
  \E k \in 1..Len(console) : console[k] = [stream |-> "log", what |-> "Search index generated"]

\* C21: the artifact is written only when every extraction task has
\* fulfilled, in one step per run (the job leaves the await with it and never
\* comes back to it); the confirmation is on the console only when the
\* artifact has been written, and never after a write that failed.
C21_WriteAfterAllTasks ==
  /\ [](ConfirmationPrinted => (artifact.state = "written" /\ batchPc = "resolved"))
  /\ [](batchPc \in {"rejected", "caught"} => ~ConfirmationPrinted)
  /\ [][artifact' # artifact =>
          /\ batchPc = "awaiting"
          /\ batchPc' # "awaiting"
          /\ \A i \in 1..Len(tasks) : tasks[i] = "fulfilled"]_vars
  /\ [][batchPc \notin {"start", "awaiting"} => batchPc' # "awaiting"]_vars

\* three tasks have fulfilled, the last discovered first, the index is written
\* and confirmed
C21_Witness ==
  /\ batchPc = "resolved"
  /\ settled = <<3, 2, 1>>
  /\ artifact.state = "written"
  /\ Len(artifact.index) = 3
  /\ ConfirmationPrinted

(***************************************************************************)
(* Specification SpecBatchFair: one run of the batch job, scheduled        *)
(***************************************************************************)
\* the steps of a run that has started
AfterStart ==
  \/ DiscoveryThrows
  \/ \E i \in 1..Len(tasks) : TaskFulfils(i)
  \/ \E i \in 1..Len(tasks) : TaskRejects(i)
  \/ WriteSucceeds
  \/ WriteThrows
  \/ BatchRejects
  \/ CatchLogs
  \/ ProcessExits

\* the script runs when the process starts (weak fairness of StartBatch, with
\* its enabling condition written out), the event loop runs every
\* continuation that is ready, and the process exits once nothing is pending
SpecBatchFair ==
  /\ SpecBatch
  /\ (<>[](batchPc = "start" /\ rootReadable) => []<><<StartBatch>>_vars)
  /\ WF_vars(AfterStart)

\* C23: every run of the batch job ends, and when it has ended either the
\* artifact has been written and the confirmation printed and no error
\* logged, or an error has been logged and the artifact has not been written
\* and no confirmation printed; never both, never neither.
C23_OneOutcome ==
  /\ <>(exitStatus # -1)
  /\ [](exitStatus # -1 =>
          LET written == artifact.state = "written"
          IN \/ written /\ ConfirmationPrinted /\ ~ErrorLogged
             \/ ErrorLogged /\ ~written /\ ~ConfirmationPrinted)

\* a run that ended after the write failed with every document extracted
C23_Witness ==
  /\ exitStatus # -1
  /\ Len(files) = 2
  /\ tasks = <<"fulfilled", "fulfilled">>
  /\ ErrorLogged
  /\ artifact.state = "truncated"

(***************************************************************************)
(* Specification SpecRerun: the script run twice on the same content tree  *)
(***************************************************************************)
\* the first process has exited and the script is started again: a new
\* process with nothing discovered and an empty console; the content tree and
\* OUTPUT_FILE are as the first run left them
RunAgain ==
  /\ run = 1
  /\ exitStatus # -1
  /\ run' = 2
  /\ firstArtifact' = artifact
  /\ firstSettled' = settled
  /\ files' = <<>>
  /\ tasks' = <<>>
  /\ taskResults' = <<>>
  /\ settled' = <<>>
  /\ console' = <<>>
  /\ batchPc' = "start"
  /\ exitStatus' = -1
  /\ UNCHANGED <<contentTree, rootReadable, fileState, artifact>>
  /\ UNCHANGED <<slugVars, pathVars, tocVars, headVars, docVars, navVars, callVars, pairVars>>

NextRerun == NextBatch \/ RunAgain

SpecRerun == InitBatch /\ [][NextRerun]_vars

\* C14: two runs of the batch build on the same unchanged content tree write
\* the same artifact, however the extraction tasks of each run interleave.
C14_SameArtifact ==
  (run = 2 /\ firstArtifact.state = "written" /\ batchPc = "resolved")
    => artifact = firstArtifact

\* the tasks of the two runs fulfilled in opposite orders
C14_Witness ==
  /\ run = 2
  /\ batchPc = "resolved"
  /\ firstArtifact.state = "written"
  /\ Len(files) = 3
  /\ firstSettled = <<1, 2, 3>>
  /\ settled = <<3, 2, 1>>
  /\ artifact = firstArtifact

(***************************************************************************)
(* getPreviousNext (src/lib/markdown.ts)                                   *)
(***************************************************************************)
\* what an array access outside the array gives
UndefinedRoute == [title |-> "undefined", href |-> <<>>]

\* Array.prototype.findIndex with the callback of line 96: the zero-based
\* index of the first route whose href is target, -1 when there is none
findIndex(routes, target) ==
  LET hits == {i \in 1..Len(routes) : routes[i].href = target}
  IN IF hits = {} THEN -1 ELSE NthOf(hits, 1) - 1

\* faulty variant: routes.at(k), a negative index counts from the end
arrayAtFromEnd(routes, k) ==
  IF k \in 0..(Len(routes) - 1) THEN routes[k + 1]
  ELSE IF -k \in 1..Len(routes) THEN routes[Len(routes) + k + 1]
  ELSE UndefinedRoute

\* routes[k], lines 98-99: undefined outside 0..length-1
arrayAt(routes, k) == IF k \in 0..(Len(routes) - 1) THEN routes[k + 1] ELSE UndefinedRoute

\* lines 95-101
getPreviousNext(routes, p) ==
  LET index == findIndex(routes, <<"/">> \o p)
  IN [prev |-> arrayAt(routes, index - 1), next |-> arrayAt(routes, index + 1)]

(***************************************************************************)
(* Specification SpecRoutes: one call of getPreviousNext                   *)
(***************************************************************************)
MaxRoutes == 3

PageNames == <<"a", "b", "c", "d", "e">>

\* the routes a table is made of, one per page
Routes == {[title |-> PageNames[k], href |-> <<"/", PageNames[k]>>] : k \in 1..MaxRoutes}

\* the route tables: ordered lists of routes, no href twice
RouteTables ==
  {t \in SeqsUpTo(Routes, MaxRoutes) : \A i, j \in 1..Len(t) : i # j => t[i].href # t[j].href}

\* the paths asked for: every page of the table, a page outside it, and the
\* empty path
NavPaths == {<<PageNames[k]>> : k \in 1..(MaxRoutes + 1)} \cup {<<>>}

InitRoutes ==
  /\ page_routes \in RouteTables
  /\ navPath \in NavPaths
  /\ prevNext = <<>>
  /\ navPc = "call"
  /\ IdleSlug
  /\ IdlePath
  /\ IdleToc
  /\ IdleHead
  /\ IdleBatch
  /\ IdleDoc
  /\ IdleCall
  /\ IdleRerun
  /\ IdlePair

\* lines 95-101
GetPreviousNext ==
  /\ navPc = "call"
  /\ prevNext' = getPreviousNext(page_routes, navPath)
  /\ navPc' = "returned"
  /\ UNCHANGED <<page_routes, navPath, notNav>>

NextRoutes == GetPreviousNext

SpecRoutes == InitRoutes /\ [][NextRoutes]_vars

\* C15: for a route list and a path that matches the route at position i,
\* getPreviousNext returns as prev the route before it, undefined when it is
\* the first, and as next the route after it, undefined when it is the last.
C15_Neighbours ==
  navPc = "returned" =>
    \A i \in 1..Len(page_routes) :
      page_routes[i].href = <<"/">> \o navPath =>
        /\ prevNext.prev = (IF i = 1 THEN UndefinedRoute ELSE page_routes[i - 1])
        /\ prevNext.next = (IF i = Len(page_routes) THEN UndefinedRoute
                            ELSE page_routes[i + 1])

\* the first route of a table of three: no prev, the second route as next
C15_Witness ==
  /\ navPc = "returned"
  /\ Len(page_routes) = 3
  /\ page_routes[1].href = <<"/">> \o navPath
  /\ prevNext.prev = UndefinedRoute
  /\ prevNext.next = page_routes[2]

\* C25: for a path that matches no route of the table, getPreviousNext
\* returns prev and next both undefined.
C25_NoNeighbours ==
  (navPc = "returned" /\ \A i \in 1..Len(page_routes) : page_routes[i].href # <<"/">> \o navPath)
    => (prevNext.prev = UndefinedRoute /\ prevNext.next = UndefinedRoute)

(***************************************************************************)
(* Specification SpecDocs: one call of getDocsForSlug                      *)
(***************************************************************************)
InitDocs ==
  /\ slug \in Slugs
  /\ fs \in [Candidates(slug) -> FsKinds]
  /\ statError \in BOOLEAN
  /\ probed = {}
  /\ pathPc = "call"
  /\ resolved = <<>>
  /\ docsPc = "resolving"
  /\ readError = <<>>
  /\ errorLog = <<>>
  /\ caught = <<>>
  /\ IdleSlug
  /\ IdleToc
  /\ IdleHead
  /\ IdleBatch
  /\ IdleDoc
  /\ IdleNav
  /\ IdleRerun
  /\ IdlePair

\* line 67: getDocsContentPath has returned, fs.readFile(contentPath) is awaited
DocsReadFile ==
  /\ docsPc = "resolving"
  /\ pathPc = "returned"
  /\ docsPc' = "reading"
  /\ UNCHANGED <<readError, errorLog, caught, pathVars, notCall>>

\* lines 67-68: the read fulfils, parseMdx(rawMdx) is awaited
DocsReadFulfilled ==
  /\ docsPc = "reading"
  /\ fs[resolved] = "file"
  /\ docsPc' = "parsing"
  /\ UNCHANGED <<readError, errorLog, caught, pathVars, notCall>>

\* line 67: the read rejects, control passes to the catch clause
DocsReadRejected ==
  /\ docsPc = "reading"
  /\ fs[resolved] # "file"
  /\ readError' = readFileError(resolved)
  /\ docsPc' = "catch"
  /\ UNCHANGED <<errorLog, caught, pathVars, notCall>>

\* line 68: the compiler accepts the text, the compiled document is returned
DocsParseFulfilled ==
  /\ docsPc = "parsing"
  /\ docsPc' = "done"
  /\ UNCHANGED <<readError, errorLog, caught, pathVars, notCall>>

\* line 68: the compiler rejects the text, control passes to the catch clause
DocsParseRejected ==
  /\ docsPc = "parsing"
  /\ readError' = [code |-> "MDX", path |-> resolved]
  /\ docsPc' = "catch"
  /\ UNCHANGED <<errorLog, caught, pathVars, notCall>>

\* line 70: console.error with the slug and the error
DocsLogs ==
  /\ docsPc = "catch"
  /\ errorLog' = Append(errorLog, [slug |-> slug, err |-> readError])
  /\ docsPc' = "logged"
  /\ UNCHANGED <<readError, caught, pathVars, notCall>>

\* line 71: throw err, the caller receives the error that was caught
DocsRethrows ==
  /\ docsPc = "logged"
  /\ caught' = readError
  /\ docsPc' = "threw"
  /\ UNCHANGED <<readError, errorLog, pathVars, notCall>>

NextDocs ==
  \/ ReturnLiteral \/ StartStat \/ StatFulfilled \/ StatRejected
  \/ DocsReadFile \/ DocsReadFulfilled \/ DocsReadRejected
  \/ DocsParseFulfilled \/ DocsParseRejected \/ DocsLogs \/ DocsRethrows

SpecDocs == InitDocs /\ [][NextDocs]_vars

\* C17: whenever an on-demand operation for a slug fails while reading or
\* parsing the resolved file, the slug has been logged, with the error, by the
\* time the failure reaches the caller; the caller receives the very error
\* the read or the parse failed with; and the read is attempted once.  The
\* formula holds for getDocsForSlug (SpecDocs) and is violated by getDocsTocs
\* (SpecToc), whose failure reaches the caller with nothing logged.
C17_SlugLogged ==
  caught # <<>> =>
    /\ caught = readError
    /\ \E i \in 1..Len(errorLog) : errorLog[i] = [slug |-> slug, err |-> caught]
    /\ Len(errorLog) = 1

(***************************************************************************)
(* Specification SpecPair: two invocations of getDocsTocs in flight        *)
(* together, each suspended at its awaits (src/lib/markdown.ts 76-93)      *)
(***************************************************************************)
Invocations == {1, 2}

\* faulty variant: the array is a module-level one that every invocation
\* pushes to, so it already holds what a finished invocation pushed
sharedHeadings(cs, i) ==
  LET done == {j \in DOMAIN cs : j # i /\ cs[j].pc = "done"}
  IN IF done = {} THEN <<>> ELSE cs[CHOOSE j \in done : TRUE].result

\* line 80: const extractedHeadings = [], a new array in every invocation
newHeadings(cs, i) == <<>>

\* a slug resolved by probing, a slug with the extension, and the slug of the
\* directory index itself
PairSlugs ==
  {<<"a">>, <<"a", ".", "m", "d", "x">>, <<"a", "/", "i", "n", "d", "e", "x", ".", "m", "d", "x">>}

PairPaths == {mdxPath(<<"a">>), indexPath(<<"a">>)}

NoFile == <<"ENOENT">>

PairTexts ==
  {<<"#", "#", " ", "B">>, <<"#", "#", "#", " ", "B", "\n", "#", "#", " ", "B">>, <<"B">>}

InitPair ==
  /\ fileText \in [PairPaths -> PairTexts \cup {NoFile}]
  /\ fs = [p \in PairPaths |-> IF fileText[p] = NoFile THEN "none" ELSE "file"]
  /\ calls \in [Invocations -> {[slug |-> s, pc |-> "call", resolved |-> <<>>, reads |-> 0,
                                 result |-> <<>>] : s \in PairSlugs}]
  /\ schedule = <<>>
  /\ slug = <<>>
  /\ statError = FALSE
  /\ probed = {}
  /\ pathPc = "idle"
  /\ resolved = <<>>
  /\ IdleSlug
  /\ IdleToc
  /\ IdleHead
  /\ IdleBatch
  /\ IdleDoc
  /\ IdleNav
  /\ IdleCall
  /\ IdleRerun

\* lines 77 and 113-120: getDocsContentPath runs to its return (a slug with
\* the extension) or to its await of fs.stat
PairResolve(i) ==
  /\ calls[i].pc = "call"
  /\ calls' = [calls EXCEPT ![i] =
                 IF endsWithMdx(calls[i].slug)
                 THEN [@ EXCEPT !.pc = "resolved", !.resolved = pathJoin(calls[i].slug)]
                 ELSE [@ EXCEPT !.pc = "stat"]]
  /\ schedule' = Append(schedule, i)
  /\ UNCHANGED <<fileText, pathVars, notPair>>

\* lines 120-124: fs.stat settles and getDocsContentPath returns
PairStatSettles(i) ==
  /\ calls[i].pc = "stat"
  /\ calls' = [calls EXCEPT ![i] =
                 [@ EXCEPT !.pc = "resolved",
                           !.resolved = IF statFulfils(mdxPath(calls[i].slug))
                                        THEN mdxPath(calls[i].slug)
                                        ELSE catchStat(calls[i].slug).value]]
  /\ schedule' = Append(schedule, i)
  /\ UNCHANGED <<fileText, pathVars, notPair>>

\* line 78: fs.readFile(contentPath) is called and awaited
PairReadFile(i) ==
  /\ calls[i].pc = "resolved"
  /\ calls' = [calls EXCEPT ![i] = [@ EXCEPT !.pc = "reading", !.reads = @ + 1]]
  /\ schedule' = Append(schedule, i)
  /\ UNCHANGED <<fileText, pathVars, notPair>>

\* lines 78-92: the read settles; with the text the loop runs to its end
\* without another await and the array is returned
PairReadSettles(i) ==
  /\ calls[i].pc = "reading"
  /\ calls' = [calls EXCEPT ![i] =
                 IF fs[calls[i].resolved] = "file"
                 THEN [@ EXCEPT !.pc = "done",
                                !.result = ExecLoop(fileText[calls[i].resolved], 1,
                                                    newHeadings(calls, i))]
                 ELSE [@ EXCEPT !.pc = "threw"]]
  /\ schedule' = Append(schedule, i)
  /\ UNCHANGED <<fileText, pathVars, notPair>>

NextPair ==
  \E i \in Invocations :
    PairResolve(i) \/ PairStatSettles(i) \/ PairReadFile(i) \/ PairReadSettles(i)

SpecPair == InitPair /\ [][NextPair]_vars

\* what getDocsTocs(s) does when it is the only invocation
ResultAlone(s) ==
  LET p == IF HasMdxExtension(s) THEN UnderRoot(s)
           ELSE IF fs[UnderRoot(s \o <<".", "m", "d", "x">>)] = "file"
           THEN UnderRoot(s \o <<".", "m", "d", "x">>)
           ELSE UnderRoot(s \o <<"/", "i", "n", "d", "e", "x", ".", "m", "d", "x">>)
  IN IF fs[p] = "file" THEN [pc |-> "done", result |-> ExecLoop(fileText[p], 1, <<>>)]
     ELSE [pc |-> "threw", result |-> <<>>]

\* C22: two invocations of getDocsTocs interleaved at their awaits over an
\* unchanged file system share nothing: each ends as it ends when run alone,
\* with the same TocEntry sequence, and reads file content at most once.
C22_NoSharedState ==
  \A i \in Invocations :
    /\ calls[i].reads <= 1
    /\ calls[i].pc \in {"done", "threw"} =>
         (calls[i].pc = ResultAlone(calls[i].slug).pc
          /\ calls[i].result = ResultAlone(calls[i].slug).result)

\* the two invocations took turns at every await and returned the entries of
\* two different files
C22_Witness ==
  /\ schedule = <<1, 2, 1, 2, 1, 2, 1>>
  /\ calls[1].pc = "done"
  /\ calls[2].pc = "done"
  /\ Len(calls[1].result) = 1
  /\ Len(calls[2].result) = 2

(***************************************************************************)
(* remark-parse as extractHeadings uses it (src/unnamed/part_000 line 54): *)
(* the block structure of a text whose lines carry no inline markup         *)
(***************************************************************************)
\* the length of the run of character c that starts at position p of a line
RunOf(c, line, p) ==
  Cardinality({k \in 1..(Len(line) - p + 1) : \A i \in p..(p + k - 1) : line[i] = c})

LeadingSpaces(line) == RunOf(" ", line, 1)

IsBlankLine(line) == \A i \in 1..Len(line) : line[i] \in {" ", "\t"}

\* the length of the run of U+0060 a line starts with after at most three
\* spaces; 0 when the line is indented further
FenceLength(line) ==
  IF LeadingSpaces(line) <= 3 THEN RunOf(Backtick, line, LeadingSpaces(line) + 1) ELSE 0

\* an opening code fence: three or more U+0060 and an info string without one
OpensFence(line) ==
  /\ FenceLength(line) >= 3
  /\ \A i \in (LeadingSpaces(line) + FenceLength(line) + 1)..Len(line) : line[i] # Backtick

\* a closing code fence for an opening fence of n characters: at least n of
\* them and nothing but spaces after
ClosesFence(line, n) ==
  /\ FenceLength(line) >= n
  /\ \A i \in (LeadingSpaces(line) + FenceLength(line) + 1)..Len(line) : line[i] \in {" ", "\t"}

\* the depth of an ATX heading line: one to six '#' after at most three
\* spaces, followed by a space or the end of the line; 0 for any other line
AtxDepth(line) ==
  LET ls == LeadingSpaces(line)
      k == RunOf("#", line, ls + 1)
  IN IF /\ ls <= 3
        /\ k \in 1..6
        /\ (ls + k = Len(line) \/ line[ls + k + 1] \in {" ", "\t"})
     THEN k ELSE 0

\* the content of an ATX heading line: what follows the opening '#', without
\* a closing sequence of '#' that a space precedes and without the spaces
\* around it
AtxContent(line) ==
  LET rest == TrimEnd(SubSeq(line, LeadingSpaces(line) + AtxDepth(line) + 1, Len(line)))
      h == Cardinality({k \in 1..Len(rest) : \A i \in (Len(rest) - k + 1)..Len(rest) : rest[i] = "#"})
      open == IF h > 0 /\ h < Len(rest) /\ rest[Len(rest) - h] \in {" ", "\t"}
              THEN SubSeq(rest, 1, Len(rest) - h)
              ELSE rest
  IN trim(open)

TextNodes(value) == IF value = <<>> THEN <<>> ELSE <<[type |-> "text", value |-> value]>>

\* the open paragraph, if there is one, is closed and becomes a node
Flush(st) ==
  IF st.mode = "paragraph"
  THEN [st EXCEPT !.mode = "flow", !.text = <<>>,
                  !.nodes = Append(@, [type |-> "paragraph", depth |-> 0,
                                       children |-> TextNodes(st.text)])]
  ELSE [st EXCEPT !.mode = "flow"]

CodeNode == [type |-> "code", depth |-> 0, children |-> <<>>]

\* one line read by the block parser; st.fence is the length of the open
\* code fence or 0, st.mode says what the preceding line left open
ParseLine(st, line) ==
  IF st.fence > 0
  THEN IF ClosesFence(line, st.fence) THEN [st EXCEPT !.fence = 0] ELSE st
  ELSE IF IsBlankLine(line) THEN (IF st.mode = "indented" THEN st ELSE Flush(st))
  ELSE IF AtxDepth(line) > 0
  THEN [Flush(st) EXCEPT !.nodes = Append(@, [type |-> "heading", depth |-> AtxDepth(line),
                                               children |-> TextNodes(AtxContent(line))])]
  ELSE IF OpensFence(line)
  THEN [Flush(st) EXCEPT !.fence = FenceLength(line), !.nodes = Append(@, CodeNode)]
  ELSE IF LeadingSpaces(line) >= 4 /\ st.mode # "paragraph"
  THEN IF st.mode = "indented" THEN st
       ELSE [st EXCEPT !.mode = "indented", !.nodes = Append(@, CodeNode)]
  ELSE IF st.mode = "paragraph"
  THEN [st EXCEPT !.text = @ \o <<"\n">> \o trim(line)]
  ELSE [Flush(st) EXCEPT !.mode = "paragraph", !.text = trim(line)]

RECURSIVE ParseLines(_, _)
ParseLines(st, lines) ==
  IF lines = <<>> THEN Flush(st) ELSE ParseLines(ParseLine(st, Head(lines)), Tail(lines))

\* line 54: unified().use(remarkParse).parse(content); a fence that is never
\* closed runs to the end of the text
remarkParse(content) ==
  [type |-> "root",
   children |-> ParseLines([fence |-> 0, mode |-> "flow", text |-> <<>>, nodes |-> <<>>],
                           LinesOf(content, <<>>)).nodes]

(***************************************************************************)
(* Specification SpecAgree: the pattern of getDocsTocs and the parse of    *)
(* extractHeadings on the same text                                        *)
(***************************************************************************)
MaxFencedLines == 3

FenceLine == <<Backtick, Backtick, Backtick>>

\* a code fence, headings of level 2, 4 and 1, a line of text and a blank line
FencedLines ==
  {FenceLine, <<"#", "#", " ", "B">>, <<"#", "#", "#", "#", " ", "B", " ">>, <<"#", " ", "B">>,
   <<"B">>, <<>>}

RECURSIVE JoinLines(_)
JoinLines(lines) ==
  IF lines = <<>> THEN <<>>
  ELSE IF Len(lines) = 1 THEN Head(lines)
  ELSE Head(lines) \o <<"\n">> \o JoinLines(Tail(lines))

FencedDocs == {JoinLines(ls) : ls \in SeqsUpTo(FencedLines, MaxFencedLines)}

InitAgree ==
  /\ rawMdx \in FencedDocs
  /\ tocPc = "read"
  /\ extractedHeadings = <<>>
  /\ tree = <<>>
  /\ headPc = "content"
  /\ IdleSlug
  /\ IdlePath
  /\ IdleBatch
  /\ IdleDoc
  /\ IdleNav
  /\ IdleCall
  /\ IdleRerun
  /\ IdlePair

\* src/lib/markdown.ts lines 79-92 on the text read
TocScan ==
  /\ tocPc = "read"
  /\ extractedHeadings' = ExecLoop(rawMdx, 1, <<>>)
  /\ tocPc' = "done"
  /\ UNCHANGED <<rawMdx, pathVars, callVars, notToc>>

\* src/unnamed/part_000 line 54 on the same text
RemarkParse ==
  /\ headPc = "content"
  /\ tree' = remarkParse(rawMdx)
  /\ headPc' = "parsed"
  /\ UNCHANGED <<slugVars, notHead>>

NextAgree == TocScan \/ RemarkParse \/ ExtractHeadings

SpecAgree == InitAgree /\ [][NextAgree]_vars

\* C26: the pattern-based TOC agrees with the structural parse: every
\* TocEntry has a heading node of its level, 2 to 4, and of its text among
\* the heading nodes the parse of extractHeadings finds in the same text, so
\* that a line that looks like a heading inside a fenced code block gives no
\* TocEntry.
C26_TocWithinParse ==
  (tocPc = "done" /\ headPc \in {"parsed", "done"}) =>
    \A n \in 1..Len(extractedHeadings) :
      \E h \in 1..Len(HeadingNodes(tree.children)) :
        LET node == HeadingNodes(tree.children)[h]
        IN /\ node.depth = extractedHeadings[n].level
           /\ node.depth \in 2..4
           /\ DirectText(node.children) = extractedHeadings[n].text

====
